---- MODULE Spec2Model ----
(***************************************************************************)
(* Model of rules/okta_group_naming_convention.go: the rule                *)
(* OktaGroupNamePrefixRule and its Check method, run against a host        *)
(* (tflint.Runner) whose three capabilities GetResourceContent,            *)
(* EvaluateExpr and EmitIssue may each succeed or fail.                    *)
(*                                                                         *)
(* Strings are sequences of letters.  The host's behaviour is fixed in the *)
(* initial state (which blocks exist, what each 'name' expression resolves *)
(* to, which host calls fail), so that two passes see the same host.       *)
(***************************************************************************)
EXTENDS Integers, Sequences, FiniteSets

VARIABLES
    prefix,         \* r.prefix
    hostQueryErr,   \* host: the error GetResourceContent returns (Nil: none)
    hostBlocks,     \* host: the okta_group blocks, in the host's order
    emitFailAt,     \* host: EmitIssue fails for the attribute at this range (0: never)
    pc,             \* position of Check
    run,            \* "first" or "second" invocation of Check
    resources,      \* resources.Blocks (line 50)
    i,              \* index of the range loop over resources.Blocks (line 58)
    groupName,      \* argument of the callback (line 66)
    err,            \* the function-scope err (line 50), also assigned at line 71
    loopErr,        \* the loop-scope err (line 66)
    ret,            \* what Check returned (Pending while it runs)
    issues,         \* host: the issues recorded through EmitIssue in this pass
    queryCalls,     \* number of GetResourceContent calls in this pass
    evalCalls,      \* number of EvaluateExpr calls per block in this pass
    hostFailed,     \* some host call returned an error in this pass
    log,            \* the host calls of this pass, in order
    firstIssues,    \* the issues of the first pass
    firstRet        \* the result of the first pass

vars == <<prefix, hostQueryErr, hostBlocks, emitFailAt, pc, run, resources, i,
          groupName, err, loopErr, ret, issues, queryCalls, evalCalls,
          hostFailed, log, firstIssues, firstRet>>

(* ---------------------------------------------------------------- bounds *)
MaxBlocks == 2      \* most blocks the host returns
MaxLen == 2         \* longest group name

(* ------------------------------------------------------------- constants *)
Alphabet == {"t", "T"}
Strings == UNION {[1..n -> Alphabet] : n \in 0..MaxLen}

\* NewOktaGroupNamePrefixRule: the prefix the rule is built with.  The
\* literal "terraform-" is a word of lower-case letters; the empty prefix is
\* the boundary configuration of the same struct.
Prefixes == {<< >>, <<"t", "t">>}
resourceType == "okta_group"
attributeName == "name"

Name == "okta_group_name_prefix"
Enabled == TRUE
Severity == "ERROR"

(* ----------------------------------------------------------------- errors *)
Nil == [kind |-> "nil", at |-> 0]
Pending == [kind |-> "pending", at |-> 0]
HostQueryError == [kind |-> "HostQueryError", at |-> 0]
EvaluationError(k) == [kind |-> "EvaluationError", at |-> k]
EmissionError(k) == [kind |-> "EmissionError", at |-> k]

(* ------------------------------------------------------------------ host *)
\* An expression as the host sees it: it resolves to a string, or it is
\* unknown (the host skips the callback), or it cannot be evaluated to a
\* string (the host returns an error).
Exprs == [kind : {"value"}, val : Strings]
           \cup {[kind |-> "unknown", val |-> << >>],
                 [kind |-> "invalid", val |-> << >>]}

\* resource.Body.Attributes: empty, or one entry for 'name'.
AttrsAt(k) == {<< >>} \cup
    {[a \in {attributeName} |-> [Expr |-> e, Range |-> k]] : e \in Exprs}

BlockLists == UNION {
    {bs \in [1..n -> UNION {AttrsAt(k) : k \in 1..n}] :
        \A k \in 1..n : bs[k] \in AttrsAt(k)} : n \in 0..MaxBlocks}

(* ------------------------------------------------------------- functions *)
\* strings.HasPrefix(s, prefix): len(s) >= len(prefix) && s[:len(prefix)] == prefix
HasPrefixStrict(s, p) == Len(s) > Len(p) /\ SubSeq(s, 1, Len(p)) = p
Lower(c) == IF c = "T" THEN "t" ELSE c
HasPrefixFold(s, p) ==
    /\ Len(s) >= Len(p)
    /\ \A j \in 1..Len(p) : Lower(s[j]) = Lower(p[j])
HasPrefixNonEmpty(s, p) ==
    Len(p) > 0 /\ Len(s) >= Len(p) /\ SubSeq(s, 1, Len(p)) = p
HasPrefix(s, p) == Len(s) >= Len(p) /\ SubSeq(s, 1, Len(p)) = p

\* fmt.Sprintf("Okta group name must start with '%s'", r.prefix)
IssueMsg(p) == <<"Okta group name must start with '">> \o p \o <<"'">>

Issue(p, rng) == [rule |-> Name, message |-> IssueMsg(p), range |-> rng]

exists(blk) == attributeName \in DOMAIN blk
attribute(blk) == blk[attributeName]

(* ------------------------------------------------------------------ Init *)
Init ==
    /\ prefix \in Prefixes
    /\ hostQueryErr \in {Nil, HostQueryError}
    /\ hostBlocks \in BlockLists
    /\ emitFailAt \in 0..MaxBlocks
    /\ pc = "start"
    /\ run = "first"
    /\ resources = << >>
    /\ i = 0
    /\ groupName = << >>
    /\ err = Nil
    /\ loopErr = Nil
    /\ ret = Pending
    /\ issues = << >>
    /\ queryCalls = 0
    /\ evalCalls = [k \in 1..Len(hostBlocks) |-> 0]
    /\ hostFailed = FALSE
    /\ log = << >>
    /\ firstIssues = << >>
    /\ firstRet = Pending

hostVars == <<prefix, hostQueryErr, hostBlocks, emitFailAt>>
firstVars == <<firstIssues, firstRet>>

(* --------------------------------------------------------------- actions *)
\* Lines 50-55: the query, and the return of its error.
GetResourceContentIgnoringErr ==
    /\ pc = "start"
    /\ queryCalls' = queryCalls + 1
    /\ log' = Append(log, <<"query", 0>>)
    /\ err' = hostQueryErr
    /\ hostFailed' = (hostQueryErr # Nil)
    /\ resources' = hostBlocks /\ i' = 1 /\ pc' = "loop" /\ ret' = ret
    /\ UNCHANGED <<hostVars, firstVars, run, groupName, loopErr, issues, evalCalls>>

GetResourceContent ==
    /\ pc = "start"
    /\ queryCalls' = queryCalls + 1
    /\ log' = Append(log, <<"query", 0>>)
    /\ err' = hostQueryErr
    /\ hostFailed' = (hostQueryErr # Nil)
    /\ IF hostQueryErr # Nil
       THEN /\ ret' = hostQueryErr
            /\ pc' = "done"
            /\ UNCHANGED <<resources, i>>
       ELSE /\ resources' = hostBlocks
            /\ i' = 1
            /\ pc' = "loop"
            /\ ret' = ret
    /\ UNCHANGED <<hostVars, firstVars, run, groupName, loopErr, issues, evalCalls>>

\* Lines 58-63 and 84: the loop head.  Past the last block Check returns nil;
\* a block without 'name' is skipped; otherwise the attribute is evaluated.
NextBlockBreak ==
    /\ pc = "loop"
    /\ IF i > Len(resources) \/ ~exists(resources[i])
       THEN /\ ret' = Nil /\ pc' = "done" /\ i' = i
       ELSE /\ pc' = "eval" /\ UNCHANGED <<ret, i>>
    /\ UNCHANGED <<hostVars, firstVars, run, resources, groupName, err, loopErr,
                   issues, queryCalls, evalCalls, hostFailed, log>>

NextBlock ==
    /\ pc = "loop"
    /\ IF i > Len(resources)
       THEN /\ ret' = Nil
            /\ pc' = "done"
            /\ i' = i
       ELSE IF ~exists(resources[i])
            THEN /\ i' = i + 1
                 /\ UNCHANGED <<pc, ret>>
            ELSE /\ pc' = "eval"
                 /\ UNCHANGED <<ret, i>>
    /\ UNCHANGED <<hostVars, firstVars, run, resources, groupName, err, loopErr,
                   issues, queryCalls, evalCalls, hostFailed, log>>

\* Line 66: the call of runner.EvaluateExpr.  The host fails, or skips the
\* callback and returns nil, or calls the callback with the resolved string.
EvaluateExprPlaceholder ==
    /\ pc = "eval"
    /\ evalCalls' = [evalCalls EXCEPT ![i] = @ + 1]
    /\ log' = Append(log, <<"eval", i>>)
    /\ LET e == attribute(resources[i]).Expr IN
         IF e.kind = "invalid"
         THEN /\ loopErr' = EvaluationError(i) /\ hostFailed' = TRUE
              /\ pc' = "evalret" /\ UNCHANGED groupName
         ELSE /\ groupName' = e.val /\ pc' = "callback"
              /\ UNCHANGED <<loopErr, hostFailed>>
    /\ UNCHANGED <<hostVars, firstVars, run, resources, i, err, ret, issues, queryCalls>>

EvaluateExpr ==
    /\ pc = "eval"
    /\ evalCalls' = [evalCalls EXCEPT ![i] = @ + 1]
    /\ log' = Append(log, <<"eval", i>>)
    /\ LET e == attribute(resources[i]).Expr IN
         CASE e.kind = "invalid" ->
                /\ loopErr' = EvaluationError(i)
                /\ hostFailed' = TRUE
                /\ pc' = "evalret"
                /\ UNCHANGED groupName
           [] e.kind = "unknown" ->
                /\ loopErr' = Nil
                /\ pc' = "evalret"
                /\ UNCHANGED <<groupName, hostFailed>>
           [] e.kind = "value" ->
                /\ groupName' = e.val
                /\ pc' = "callback"
                /\ UNCHANGED <<loopErr, hostFailed>>
    /\ UNCHANGED <<hostVars, firstVars, run, resources, i, err, ret, issues, queryCalls>>

\* Lines 67-76: the callback up to the call of EmitIssue; with the prefix
\* present it returns nil, which EvaluateExpr returns to line 66.
CallbackOnce ==
    /\ pc = "callback"
    /\ IF ~HasPrefix(groupName, prefix) /\ run = "first"
       THEN pc' = "emit" /\ UNCHANGED loopErr
       ELSE loopErr' = Nil /\ pc' = "evalret"
    /\ UNCHANGED <<hostVars, firstVars, run, resources, i, groupName, err, ret,
                   issues, queryCalls, evalCalls, hostFailed, log>>

CallbackReturnsViolation ==
    /\ pc = "callback"
    /\ IF ~HasPrefix(groupName, prefix)
       THEN loopErr' = [kind |-> "Violation", at |-> i] /\ pc' = "evalret"
       ELSE loopErr' = Nil /\ pc' = "evalret"
    /\ UNCHANGED <<hostVars, firstVars, run, resources, i, groupName, err, ret,
                   issues, queryCalls, evalCalls, hostFailed, log>>

Callback ==
    /\ pc = "callback"
    /\ IF ~HasPrefix(groupName, prefix)
       THEN /\ pc' = "emit"
            /\ UNCHANGED loopErr
       ELSE /\ loopErr' = Nil
            /\ pc' = "evalret"
    /\ UNCHANGED <<hostVars, firstVars, run, resources, i, groupName, err, ret,
                   issues, queryCalls, evalCalls, hostFailed, log>>

\* Lines 70-76: runner.EmitIssue(r, issueMsg, attribute.Range), assigned to
\* the function-scope err; the callback returns it, and EvaluateExpr returns
\* the callback's result to line 66.
EmitIssue ==
    /\ pc = "emit"
    /\ log' = Append(log, <<"emit", i>>)
    /\ IF emitFailAt = attribute(resources[i]).Range
       THEN /\ err' = EmissionError(i)
            /\ loopErr' = EmissionError(i)
            /\ hostFailed' = TRUE
            /\ UNCHANGED issues
       ELSE /\ issues' = Append(issues, Issue(prefix, attribute(resources[i]).Range))
            /\ err' = Nil
            /\ loopErr' = Nil
            /\ UNCHANGED hostFailed
    /\ pc' = "evalret"
    /\ UNCHANGED <<hostVars, firstVars, run, resources, i, groupName, ret,
                   queryCalls, evalCalls>>

\* Lines 79-82: the error of EvaluateExpr is returned, else the next block.
EvalReturnReenter ==
    /\ pc = "evalret"
    /\ log' = Append(log, <<"evaldone", i>>)
    /\ IF loopErr # Nil
       THEN ret' = loopErr /\ pc' = "done" /\ i' = i
       ELSE pc' = "loop" /\ i' = i /\ ret' = ret
    /\ UNCHANGED <<hostVars, firstVars, run, resources, groupName, err, loopErr,
                   issues, queryCalls, evalCalls, hostFailed>>

EvalReturnContinue ==
    /\ pc = "evalret"
    /\ log' = Append(log, <<"evaldone", i>>)
    /\ pc' = "loop" /\ i' = i + 1 /\ ret' = ret
    /\ UNCHANGED <<hostVars, firstVars, run, resources, groupName, err, loopErr,
                   issues, queryCalls, evalCalls, hostFailed>>

EvalReturn ==
    /\ pc = "evalret"
    /\ log' = Append(log, <<"evaldone", i>>)
    /\ IF loopErr # Nil
       THEN /\ ret' = loopErr
            /\ pc' = "done"
            /\ i' = i
       ELSE /\ pc' = "loop"
            /\ i' = i + 1
            /\ ret' = ret
    /\ UNCHANGED <<hostVars, firstVars, run, resources, groupName, err, loopErr,
                   issues, queryCalls, evalCalls, hostFailed>>

\* The host invokes Check a second time on the same, unchanged resources.
\* Everything local to Check is fresh; the rule struct has no other field.
CheckAgain ==
    /\ pc = "done"
    /\ run = "first"
    /\ run' = "second"
    /\ firstIssues' = issues
    /\ firstRet' = ret
    /\ pc' = "start"
    /\ resources' = << >>
    /\ i' = 0
    /\ groupName' = << >>
    /\ err' = Nil
    /\ loopErr' = Nil
    /\ ret' = Pending
    /\ issues' = << >>
    /\ queryCalls' = 0
    /\ evalCalls' = [k \in 1..Len(hostBlocks) |-> 0]
    /\ hostFailed' = FALSE
    /\ log' = << >>
    /\ UNCHANGED hostVars

Next ==
    \/ GetResourceContent
    \/ NextBlock
    \/ EvaluateExpr
    \/ Callback
    \/ EmitIssue
    \/ EvalReturn
    \/ CheckAgain

Spec == Init /\ [][Next]_vars

(* ------------------------------------------------- vocabulary of the claims *)
Blocks == 1..Len(hostBlocks)
HasName(k) == "name" \in DOMAIN hostBlocks[k]
ExprOf(k) == hostBlocks[k]["name"].Expr
Resolves(k) == HasName(k) /\ ExprOf(k).kind = "value"
Unresolved(k) == HasName(k) /\ ExprOf(k).kind \in {"unknown", "invalid"}
\* v starts with p: v is p followed by some string
StartsWith(v, p) == \E sfx \in Strings : v = p \o sfx
Violating(k) == Resolves(k) /\ ~StartsWith(ExprOf(k).val, prefix)
Compliant(k) == Resolves(k) /\ StartsWith(ExprOf(k).val, prefix)
IssuesAt(k) == {p \in 1..Len(issues) : issues[p].range = k}
Logged(what, k) == \E p \in 1..Len(log) : log[p] = <<what, k>>
\* the host call made for block k fails
FailsAt(k) ==
    \/ HasName(k) /\ ExprOf(k).kind = "invalid"
    \/ Violating(k) /\ emitFailAt = k
HostErrAt(k) ==
    IF ExprOf(k).kind = "invalid"
    THEN [kind |-> "EvaluationError", at |-> k]
    ELSE [kind |-> "EmissionError", at |-> k]
CleanPass == pc = "done" /\ ~hostFailed
Rank(what) ==
    CASE what = "query" -> 0
      [] what = "eval" -> 1
      [] what = "emit" -> 2
      [] what = "evaldone" -> 3

(* ------------------------------------------------------------------ claims *)
\* C1: in a pass in which no host call fails, every block whose 'name'
\* resolves to a string that does not start with the prefix (compared
\* case-sensitively) has exactly one issue, with the attribute's range and
\* the message "Okta group name must start with '<prefix>'", and every issue
\* belongs to such a block.
C1_OneIssuePerViolation ==
    CleanPass =>
        /\ \A k \in Blocks : Violating(k) =>
              /\ Cardinality(IssuesAt(k)) = 1
              /\ \A p \in IssuesAt(k) :
                    issues[p] = [rule |-> "okta_group_name_prefix",
                                 message |-> <<"Okta group name must start with '">>
                                               \o prefix \o <<"'">>,
                                 range |-> hostBlocks[k]["name"].Range]
        /\ \A p \in 1..Len(issues) :
              issues[p].range \in Blocks /\ Violating(issues[p].range)

\* One compliant block and one whose name differs from the prefix in letter
\* case only: one issue, for the second.
C1_Witness ==
    /\ CleanPass
    /\ prefix = <<"t", "t">>
    /\ Len(hostBlocks) = 2
    /\ Compliant(1)
    /\ Resolves(2) /\ ExprOf(2).val = <<"T", "t">>
    /\ Len(issues) = 1
    /\ issues[1].range = 2

\* C2: a block whose 'name' resolves to a string that starts with the prefix
\* never has an issue, EmitIssue is never called for it, its evaluation
\* returns nil, and Check never ends at it.
C2_NoIssueForCompliant ==
    \A k \in Blocks : Compliant(k) =>
        /\ IssuesAt(k) = {}
        /\ ~Logged("emit", k)
        /\ (pc = "evalret" /\ i = k) => loopErr = Nil
        /\ (pc = "done" /\ ret # hostQueryErr) => i # k

\* A compliant block was evaluated and Check went on to the block after it.
C2_Witness ==
    /\ Len(hostBlocks) = 2
    /\ prefix = <<"t", "t">>
    /\ Compliant(1)
    /\ Logged("evaldone", 1)
    /\ Logged("eval", 2)
    /\ issues = << >>

\* C3: a block without a 'name' entry never has an issue, is never
\* evaluated, and is never the block an error is returned for; a pass in
\* which no host call fails returns nil after evaluating every block that
\* has the attribute.
C3_AbsentIsSkipped ==
    /\ \A k \in Blocks : ~HasName(k) =>
          /\ IssuesAt(k) = {}
          /\ evalCalls[k] = 0
          /\ ~Logged("eval", k) /\ ~Logged("emit", k)
          /\ (pc = "done" /\ ret # Nil) => ret.at # k
    /\ CleanPass =>
          /\ ret = Nil
          /\ \A k \in Blocks : HasName(k) => evalCalls[k] = 1

\* The first block has no 'name', the block after it violates and is reported.
C3_Witness ==
    /\ CleanPass
    /\ Len(hostBlocks) = 2
    /\ ~HasName(1)
    /\ Violating(2)
    /\ evalCalls[2] = 1
    /\ Len(issues) = 1

\* C4: the second of two passes over the same resources and the same host
\* ends with the same issues as the first, neither fewer nor more.
C4_Idempotent ==
    (pc = "done" /\ run = "second") =>
        /\ {issues[p] : p \in 1..Len(issues)}
             = {firstIssues[p] : p \in 1..Len(firstIssues)}
        /\ Len(issues) = Len(firstIssues)

\* The second pass is over and reported a violation again.
C4_Witness ==
    /\ pc = "done"
    /\ run = "second"
    /\ Len(firstIssues) >= 1
    /\ Len(issues) >= 1

\* C5: when the host query fails, Check returns that error, the query was
\* made once, nothing was evaluated and nothing emitted.
C5_QueryErrorPropagates ==
    hostQueryErr # Nil =>
        /\ queryCalls <= 1
        /\ \A k \in Blocks : evalCalls[k] = 0
        /\ issues = << >>
        /\ \A p \in 1..Len(log) : log[p] = <<"query", 0>>
        /\ pc = "done" =>
              /\ ret = [kind |-> "HostQueryError", at |-> 0]
              /\ queryCalls = 1

\* The query failed although the host holds a block that would be reported.
C5_Witness ==
    /\ pc = "done"
    /\ hostQueryErr # Nil
    /\ queryCalls = 1
    /\ \E k \in Blocks : Violating(k)

\* C6: a pass in which an evaluation or an emission fails returns the error
\* of the first block whose host call fails; no later block is evaluated or
\* reported, and the issues are those of the violating blocks before it.
C6_StopOnFirstHostError ==
    (pc = "done" /\ hostFailed /\ hostQueryErr = Nil) =>
        \E k \in Blocks :
            /\ FailsAt(k)
            /\ \A j \in 1..(k - 1) : ~FailsAt(j)
            /\ ret = HostErrAt(k)
            /\ \A j \in Blocks : j > k => evalCalls[j] = 0 /\ IssuesAt(j) = {}
            /\ \A p \in 1..Len(log) : log[p][2] <= k
            /\ IssuesAt(k) = {}
            /\ \A j \in 1..(k - 1) :
                  Cardinality(IssuesAt(j)) = IF Violating(j) THEN 1 ELSE 0

\* An issue was emitted for the first block, then the emission for the
\* second failed.
C6_Witness ==
    /\ pc = "done"
    /\ Len(hostBlocks) = 2
    /\ Violating(1) /\ Violating(2)
    /\ emitFailAt = 2
    /\ ret = [kind |-> "EmissionError", at |-> 2]
    /\ Len(issues) = 1

\* C7: a block whose expression the host does not resolve to a string never
\* has an issue; every issue belongs to a block with a resolved string; the
\* result of that block's evaluation is the host's: nil when the host skips
\* the callback, the host's error when it fails, which Check then returns.
C7_UnresolvedIsNoViolation ==
    /\ \A p \in 1..Len(issues) :
          issues[p].range \in Blocks /\ Resolves(issues[p].range)
    /\ \A k \in Blocks : Unresolved(k) =>
          /\ IssuesAt(k) = {}
          /\ ~Logged("emit", k)
          /\ (pc = "evalret" /\ i = k) =>
                loopErr = IF ExprOf(k).kind = "unknown"
                          THEN Nil
                          ELSE [kind |-> "EvaluationError", at |-> k]
          /\ (pc = "done" /\ hostQueryErr = Nil /\ i = k) =>
                /\ ExprOf(k).kind = "invalid"
                /\ ret = [kind |-> "EvaluationError", at |-> k]

\* The host skipped the callback for the first block and the pass went on.
C7_Witness ==
    /\ CleanPass
    /\ prefix = <<"t", "t">>
    /\ Len(hostBlocks) = 2
    /\ Unresolved(1) /\ ExprOf(1).kind = "unknown"
    /\ Logged("evaldone", 1)
    /\ Violating(2)
    /\ Len(issues) = 1

\* C8: with the empty prefix no issue is ever emitted, whatever the blocks
\* and the resolved values, the empty string included.
C8_EmptyPrefixNoIssues ==
    prefix = << >> =>
        /\ issues = << >>
        /\ \A k \in Blocks : ~Logged("emit", k)
        /\ pc # "emit"

\* With the empty prefix, an empty name and a non-empty one were checked.
C8_Witness ==
    /\ pc = "done"
    /\ prefix = << >>
    /\ Len(hostBlocks) = 2
    /\ Resolves(1) /\ ExprOf(1).val = << >>
    /\ Resolves(2) /\ ExprOf(2).val = <<"T">>
    /\ evalCalls[1] = 1 /\ evalCalls[2] = 1

\* C9: blocks are handled one after another in the host's order: the host
\* calls of a pass never go back to an earlier block, a block's calls come
\* in the order evaluation, emission, return, each at most once, a block is
\* evaluated only when every block with the attribute before it is done,
\* and the issues are in the order of their blocks.
C9_SequentialInHostOrder ==
    /\ \A k \in Blocks : evalCalls[k] <= 1
    /\ \A p, q \in 1..Len(log) : p < q =>
          /\ log[p][2] <= log[q][2]
          /\ log[p][2] = log[q][2] => Rank(log[p][1]) < Rank(log[q][1])
    /\ \A p, q \in 1..Len(issues) : p < q => issues[p].range < issues[q].range
    /\ pc = "eval" =>
          \A j \in 1..(i - 1) :
              /\ HasName(j) => Logged("eval", j) /\ Logged("evaldone", j)
              /\ Violating(j) => Logged("emit", j)

\* Two violating blocks were evaluated and reported, the first before the
\* second.
C9_Witness ==
    /\ pc = "done"
    /\ Len(hostBlocks) = 2
    /\ Len(issues) = 2
    /\ issues[1].range = 1
    /\ issues[2].range = 2
    /\ Len(log) = 7

\* C10: Check returns an error exactly when a host call failed; a pass
\* without a failed host call returns nil after the last block, however many
\* issues it emitted, and the error returned is always a host error.
C10_ErrorIffHostFailed ==
    pc = "done" =>
        /\ (ret # Nil) <=> hostFailed
        /\ ret.kind \in {"nil", "HostQueryError", "EvaluationError", "EmissionError"}
        /\ ~hostFailed =>
              /\ i = Len(hostBlocks) + 1
              /\ \A k \in Blocks : HasName(k) => Logged("evaldone", k)
              /\ Len(issues) = Cardinality({k \in Blocks : Violating(k)})

\* Every block violates and is reported, and Check returns nil.
C10_Witness ==
    /\ pc = "done"
    /\ ret = Nil
    /\ Len(hostBlocks) = 2
    /\ Len(issues) = 2
    /\ emitFailAt = 0

====
